---------------------------- MODULE Spec2Model ----------------------------
(***************************************************************************)
(* Model of the SPS30 driver of sensiron_sps30.py: the CRC8 helpers        *)
(* (calc_crc8, validate_crc8, parse_crc8), the payload decoders            *)
(* (calcFloat, parseMeasurement) and the public operations of class SPS30  *)
(* as a state machine over the I2C bus.                                    *)
(*                                                                         *)
(* The specifications share the variables:                                 *)
(*   Spec        one caller driving a session: every public operation, one *)
(*               step per bus acquisition, transfer, release and sleep;    *)
(*   FairSpec    Spec with a running call that keeps running;              *)
(*   CodecSpec   calc_crc8 run shift by shift, and parse_crc8 applied, on  *)
(*               inputs drawn from bounded sets;                           *)
(*   DecoderSpec parseMeasurement applied to 40-byte payloads;             *)
(*   ConcSpec    two callers making the exchanges of the driver on the     *)
(*               same bus.                                                 *)
(***************************************************************************)
EXTENDS Integers, Sequences, FiniteSets, TLC

VARIABLES
    crc_init,     \* self.crc_init
    crc_poly,     \* self.crc_poly
    lock,         \* the bus lock behind self.i2c_device: 0 free, else its holder
    pc,           \* position of the caller inside the running operation
    op,           \* the public operation being run ("" when idle)
    attempts,     \* loop variable of readMeasurement
    cmd,          \* local cmd: the bytes to write
    buf,          \* local buf: the buffer the response is read into
    trace,        \* what the running operation has done so far, in order
    ret,          \* how the operation ended: return value or exception
    c_pc,         \* CodecSpec: position inside calc_crc8 / parse_crc8
    byte_array,   \* CodecSpec: the argument byte_array
    crc,          \* CodecSpec: local crc of calc_crc8
    byte_idx,     \* CodecSpec: index of the byte the outer loop of calc_crc8 is at
    bit,          \* CodecSpec: loop variable bit of calc_crc8
    parsed,       \* CodecSpec: the value parse_crc8 returned
    was_reset,    \* history: reset() has written its command on this session
    decoder_calls,\* history: the arguments parseMeasurement was called with
                  \* by the running operation, in order
    d_pc,         \* DecoderSpec: position of the call of parseMeasurement
    d_measurement,\* DecoderSpec: the argument measurement
    fields,       \* DecoderSpec: the OrderedDict parseMeasurement returned
    t_pc,         \* ConcSpec: position of each caller inside its exchange
    t_cmd,        \* ConcSpec: local cmd of each caller
    t_buf,        \* ConcSpec: local buf of each caller
    dev_req,      \* ConcSpec: the request the device received last
    wire          \* ConcSpec: the last two transfers seen on the bus

session_vars == <<lock, pc, op, attempts, cmd, buf, trace, ret>>
codec_vars == <<c_pc, byte_array, crc, byte_idx, bit, parsed>>
config_vars == <<crc_init, crc_poly>>
hist_vars == <<was_reset, decoder_calls>>
decoder_vars == <<d_pc, d_measurement, fields>>
conc_vars == <<t_pc, t_cmd, t_buf, dev_req, wire>>
side_vars == <<decoder_vars, conc_vars>>
vars == <<crc_init, crc_poly, lock, pc, op, attempts, cmd, buf, trace, ret,
          c_pc, byte_array, crc, byte_idx, bit, parsed,
          was_reset, decoder_calls, d_pc, d_measurement, fields,
          t_pc, t_cmd, t_buf, dev_req, wire>>

(***************************************************************************)
(* Bounds of the model.                                                    *)
(***************************************************************************)
\* longest byte_array handed to parse_crc8 in CodecSpec
MaxRawLen == 6

(***************************************************************************)
(* Program constants.                                                      *)
(***************************************************************************)
DefaultCrcInit == 255
DefaultCrcPoly == 305
MaxAttempts == 5
DataReadyLen == 3
MeasurementLen == 60
SerialLen == 47
\* the length of every byte array the driver hands to calc_crc8
CrcArgLen == 2

\* (crc_init, crc_poly) pairs a session is constructed with: the defaults,
\* another init, the 8-bit form of the generator, another 9-bit polynomial.
Configs == { <<DefaultCrcInit, DefaultCrcPoly>>, <<0, DefaultCrcPoly>>,
             <<DefaultCrcInit, 49>>, <<DefaultCrcInit, 263>> }

\* byte values the CodecSpec inputs are built from: 0x00, 0xBE, 0xEF, 0x92
ByteSamples == {0, 190, 239, 146}

(***************************************************************************)
(* Integer arithmetic of Python on unbounded ints.                         *)
(***************************************************************************)
RECURSIVE Xor(_, _)
\* a ^ b
Xor(a, b) ==
    IF a = 0 THEN b
    ELSE IF b = 0 THEN a
    ELSE ((a + b) % 2) + 2 * Xor(a \div 2, b \div 2)

\* crc & 0x80 != 0
TopBitSet(c) == (c \div 128) % 2 # 0

(***************************************************************************)
(* CRC8 helper functions.                                                  *)
(***************************************************************************)
\* CrcShift testing bit 0 where the code tests bit 7
CrcShiftLowBit(c, poly) ==
    IF c % 2 # 0 THEN Xor(c * 2, poly) ELSE c * 2

\* one pass of the body of "for bit in range(8)"
CrcShift(c, poly) ==
    IF TopBitSet(c) THEN Xor(c * 2, poly) ELSE c * 2

RECURSIVE CrcBits(_, _, _)
\* n passes of the inner loop
CrcBits(c, poly, n) ==
    IF n = 0 THEN c ELSE CrcBits(CrcShift(c, poly), poly, n - 1)

RECURSIVE CrcBytes(_, _, _, _)
\* the outer loop of calc_crc8 from byte k of bytes on
CrcBytes(c, poly, bytes, k) ==
    IF k > Len(bytes) THEN c
    ELSE CrcBytes(CrcBits(Xor(c, bytes[k]), poly, 8), poly, bytes, k + 1)

\* calc_crc8 for given parameters
Crc8(init, poly, bytes) == CrcBytes(init, poly, bytes, 1)

\* SPS30.calc_crc8
calc_crc8(bytes) == Crc8(crc_init, crc_poly, bytes)

\* validate_crc8 with the comparison inverted
validate_crc8_inverted(bytes, checksum) == calc_crc8(bytes) # checksum

\* SPS30.validate_crc8
validate_crc8(bytes, checksum) == calc_crc8(bytes) = checksum

\* the value False that parse_crc8 returns on a checksum mismatch
ParseFalse == [ok |-> FALSE, data |-> <<>>]

\* parse_crc8 before its loop: byte_counter = 0, parsed_byte_array empty,
\* temp_byte_array = bytearray(2); returned is set by "return False"
ParseStart ==
    [byte_counter |-> 0, temp_byte_array |-> <<0, 0>>,
     parsed_byte_array |-> <<>>, returned |-> FALSE]

\* the loop body dropping a group that fails and going on with the next
ParseStepResync(st, byte) ==
    IF st.returned THEN st
    ELSE IF st.byte_counter % 3 # 2
         THEN [st EXCEPT !.temp_byte_array[st.byte_counter + 1] = byte,
                         !.byte_counter = @ + 1]
         ELSE IF validate_crc8(st.temp_byte_array, byte)
              THEN [st EXCEPT !.parsed_byte_array = @ \o st.temp_byte_array,
                              !.temp_byte_array = <<0, 0>>,
                              !.byte_counter = 0]
              ELSE [st EXCEPT !.temp_byte_array = <<0, 0>>,
                              !.byte_counter = 0]

\* the body of "for byte in byte_array" of parse_crc8, for one byte; once
\* the function has returned False the rest of the bytes are not looked at
ParseStep(st, byte) ==
    IF st.returned THEN st
    ELSE IF st.byte_counter % 3 # 2
         THEN [st EXCEPT !.temp_byte_array[st.byte_counter + 1] = byte,
                         !.byte_counter = @ + 1]
         ELSE IF validate_crc8(st.temp_byte_array, byte)
              THEN [st EXCEPT !.parsed_byte_array = @ \o st.temp_byte_array,
                              !.temp_byte_array = <<0, 0>>,
                              !.byte_counter = 0]
              ELSE [st EXCEPT !.byte_counter = @ + 1, !.returned = TRUE]

RECURSIVE ParseRun(_, _, _, _)
\* the loop over bytes[lo..hi] in order, from loop state st; "return False"
\* leaves the loop.  (The range is halved to keep the evaluation shallow;
\* the bytes are still taken left to right.)
ParseRun(st, bytes, lo, hi) ==
    IF lo > hi THEN st
    ELSE IF lo = hi THEN ParseStep(st, bytes[lo])
    ELSE LET mid == (lo + hi) \div 2
             left == ParseRun(st, bytes, lo, mid)
         IN  IF left.returned THEN left
             ELSE ParseRun(left, bytes, mid + 1, hi)

\* what parse_crc8 returns from the final loop state
ParseResult(st) ==
    IF st.returned THEN ParseFalse
    ELSE [ok |-> TRUE, data |-> st.parsed_byte_array]

\* parse_crc8 refusing a byte array whose length is not a multiple of 3
parse_crc8_strict(bytes) ==
    IF Len(bytes) % 3 # 0 THEN ParseFalse
    ELSE ParseResult(ParseRun(ParseStart, bytes, 1, Len(bytes)))

\* SPS30.parse_crc8
parse_crc8(bytes) == ParseResult(ParseRun(ParseStart, bytes, 1, Len(bytes)))

(***************************************************************************)
(* SPS30 helper functions.                                                 *)
(***************************************************************************)
\* SPS30.calcFloat: the four bytes packed big-endian ('>BBBB') and read back
\* as an IEEE-754 single ('>f'): bit 31 is the sign, bits 30..23 the
\* exponent, bits 22..0 the fraction of the word b[1] b[2] b[3] b[4].
calcFloat(b) ==
    [sign |-> b[1] \div 128,
     exponent |-> (b[1] % 128) * 2 + b[2] \div 128,
     fraction |-> ((b[2] % 128) * 256 + b[3]) * 256 + b[4]]

\* the keys of measurement_obj, in the order parseMeasurement inserts them
FieldNames ==
    <<"Mass Concentration PM 1.0 [ug/m3]",
      "Mass Concentration PM 2.5 [ug/m3]",
      "Mass Concentration PM 4.0 [ug/m3]",
      "Mass Concentration PM 10 [ug/m3]",
      "Number Concentration PM 0.5 [#/m3]",
      "Number Concentration PM 1.0 [#/m3]",
      "Number Concentration PM 2.5 [#/m3]",
      "Number Concentration PM 4.0 [#/m3]",
      "Number Concentration PM 10 [#/m3]",
      "Typical Particle Size [um]">>

\* parseMeasurement reading every window one byte late
parseMeasurementShifted(measurement) ==
    [i \in 1..10 |->
        [key |-> FieldNames[i],
         value |-> calcFloat(SubSeq(measurement \o <<0>>,
                                    4 * (i - 1) + 2, 4 * i + 1))]]

\* SPS30.parseMeasurement: the OrderedDict as the sequence of its items, in
\* the order the keys are inserted; item i holds calcFloat of
\* measurement[4(i-1) : 4i]
parseMeasurement(measurement) ==
    [i \in 1..10 |->
        [key |-> FieldNames[i],
         value |-> calcFloat(SubSeq(measurement, 4 * (i - 1) + 1, 4 * i))]]

(***************************************************************************)
(* The session at rest: no operation running, the bus free.                *)
(***************************************************************************)
NoReturn == [kind |-> "none", val |-> <<>>]

SessionIdle ==
    /\ lock = 0
    /\ pc = "idle"
    /\ op = ""
    /\ attempts = 0
    /\ cmd = <<>>
    /\ buf = <<>>
    /\ trace = <<>>
    /\ ret = NoReturn

CodecOff ==
    /\ c_pc = "off"
    /\ byte_array = <<>>
    /\ crc = 0
    /\ byte_idx = 0
    /\ bit = 0
    /\ parsed = ParseFalse

\* no reset yet, parseMeasurement not called
HistOff ==
    /\ was_reset = FALSE
    /\ decoder_calls = <<>>

DecoderOff ==
    /\ d_pc = "off"
    /\ d_measurement = <<>>
    /\ fields = <<>>

\* a bus event of ConcSpec that never happened
NoTransfer == [who |-> 0, what |-> "none", req |-> <<>>]

ConcOff ==
    /\ t_pc = <<>>
    /\ t_cmd = <<>>
    /\ t_buf = <<>>
    /\ dev_req = <<>>
    /\ wire = <<NoTransfer, NoTransfer>>

(***************************************************************************)
(* CodecSpec: calc_crc8 stepped through, parse_crc8 applied.               *)
(***************************************************************************)
SeqsUpTo(S, n) == UNION { [1..k -> S] : k \in 0..n }

\* the byte arrays the helpers are called with
RawInputs == SeqsUpTo(ByteSamples, MaxRawLen)

CodecInit ==
    /\ \E cfg \in Configs : crc_init = cfg[1] /\ crc_poly = cfg[2]
    /\ SessionIdle
    /\ HistOff
    /\ DecoderOff
    /\ ConcOff
    /\ c_pc = "start"
    /\ byte_array \in RawInputs
    /\ crc = 0
    /\ byte_idx = 0
    /\ bit = 0
    /\ parsed = ParseFalse

\* calc_crc8: crc = self.crc_init
CalcStart ==
    /\ c_pc = "start"
    /\ Len(byte_array) <= CrcArgLen
    /\ crc' = crc_init
    /\ byte_idx' = 1
    /\ c_pc' = "byte"
    /\ UNCHANGED <<byte_array, bit, parsed>>
    /\ UNCHANGED <<config_vars, session_vars,
                 hist_vars, side_vars>>

\* calc_crc8: crc ^= byte
CalcXorByte ==
    /\ c_pc = "byte"
    /\ byte_idx <= Len(byte_array)
    /\ crc' = Xor(crc, byte_array[byte_idx])
    /\ bit' = 0
    /\ c_pc' = "bit"
    /\ UNCHANGED <<byte_array, byte_idx, parsed>>
    /\ UNCHANGED <<config_vars, session_vars,
                 hist_vars, side_vars>>

\* calc_crc8: one pass of "for bit in range(8)"
CalcShift ==
    /\ c_pc = "bit"
    /\ bit < 8
    /\ crc' = CrcShift(crc, crc_poly)
    /\ bit' = bit + 1
    /\ UNCHANGED <<c_pc, byte_array, byte_idx, parsed>>
    /\ UNCHANGED <<config_vars, session_vars,
                 hist_vars, side_vars>>

\* calc_crc8: the inner loop is over, on to the next byte
CalcNextByte ==
    /\ c_pc = "bit"
    /\ bit = 8
    /\ byte_idx' = byte_idx + 1
    /\ c_pc' = "byte"
    /\ UNCHANGED <<byte_array, crc, bit, parsed>>
    /\ UNCHANGED <<config_vars, session_vars,
                 hist_vars, side_vars>>

\* calc_crc8: return crc
CalcReturn ==
    /\ c_pc = "byte"
    /\ byte_idx > Len(byte_array)
    /\ c_pc' = "calc_done"
    /\ UNCHANGED <<byte_array, crc, byte_idx, bit, parsed>>
    /\ UNCHANGED <<config_vars, session_vars,
                 hist_vars, side_vars>>

\* a call of parse_crc8(byte_array)
Parse ==
    /\ c_pc = "start"
    /\ parsed' = parse_crc8(byte_array)
    /\ c_pc' = "parsed"
    /\ UNCHANGED <<byte_array, crc, byte_idx, bit>>
    /\ UNCHANGED <<config_vars, session_vars,
                 hist_vars, side_vars>>

CodecNext ==
    \/ CalcStart
    \/ CalcXorByte
    \/ CalcShift
    \/ CalcNextByte
    \/ CalcReturn
    \/ Parse

CodecSpec == CodecInit /\ [][CodecNext]_vars

\* the stepped calc_crc8 and the operator agree
CalcStepsAgree == c_pc = "calc_done" => crc = calc_crc8(byte_array)

(***************************************************************************)
(* The device on the other side of the bus: what it may answer.  It frames *)
(* its data with the CRC of the datasheet (init 0xFF, polynomial 0x131);   *)
(* a byte may arrive corrupted.                                            *)
(***************************************************************************)
DeviceCrc(pair) == Crc8(DefaultCrcInit, DefaultCrcPoly, pair)

\* data (an even number of bytes) with a checksum after every two bytes
Frame(data) ==
    [i \in 1..(3 * (Len(data) \div 2)) |->
        LET g == (i - 1) \div 3
            r == (i - 1) % 3
        IN  IF r < 2 THEN data[2 * g + r + 1]
            ELSE DeviceCrc(<<data[2 * g + 1], data[2 * g + 2]>>)]

\* bytes with byte k altered
Corrupt(bytes, k) == [bytes EXCEPT ![k] = (@ + 1) % 256]

Zeros(n) == [i \in 1..n |-> 0]

\* answers to the data-ready query: flag 0, 1, 2, and flag 1 with a bad checksum
DataReadyResponses ==
    { Frame(<<0, 0>>), Frame(<<0, 1>>), Frame(<<0, 2>>),
      Corrupt(Frame(<<0, 1>>), 3) }

\* a measurement whose first field is 12.5 (0x41 0x48 0x00 0x00)
SamplePayload == <<65, 72, 0, 0>> \o [i \in 1..36 |-> i]

\* answers to read-measurement: all zero, the sample, and the sample with
\* the first checksum or a data byte of the last group corrupted
MeasurementResponses ==
    { Frame(Zeros(40)), Frame(SamplePayload),
      Corrupt(Frame(SamplePayload), 3), Corrupt(Frame(SamplePayload), 59) }

\* a serial number "AB3" among unprintable bytes
SampleSerial == <<65, 0, 66, 51, 32, 33, 126, 127>> \o Zeros(22)

\* answers to read-serial-number: 15 groups and the first two bytes of a
\* 16th, intact or with a corrupted checksum
SerialResponses ==
    { Frame(SampleSerial) \o <<0, 0>>,
      Frame(<<65, 0, 66, 51>> \o Zeros(26)) \o <<0, 0>>,
      Corrupt(Frame(SampleSerial), 6) \o <<0, 0>> }

(***************************************************************************)
(* DecoderSpec: parseMeasurement applied to 40-byte payloads.              *)
(***************************************************************************)
\* byte values written into a payload: zero, the sign bit alone, all ones
DecoderBytes == {0, 128, 255}

\* the payloads parseMeasurement is called with: all zero, the sample, and
\* each of them with one byte replaced
DecoderInputs ==
    { Zeros(40), SamplePayload }
        \cup { [SamplePayload EXCEPT ![k] = v] : k \in 1..40, v \in DecoderBytes }
        \cup { [Zeros(40) EXCEPT ![k] = v] : k \in 1..40, v \in DecoderBytes }

DecoderInit ==
    /\ crc_init = DefaultCrcInit
    /\ crc_poly = DefaultCrcPoly
    /\ SessionIdle
    /\ CodecOff
    /\ HistOff
    /\ ConcOff
    /\ d_pc = "start"
    /\ d_measurement \in DecoderInputs
    /\ fields = <<>>

\* measurement_obj = self.parseMeasurement(measurement)
ParseMeasurement ==
    /\ d_pc = "start"
    /\ fields' = parseMeasurement(d_measurement)
    /\ d_pc' = "decoded"
    /\ UNCHANGED <<d_measurement, config_vars, session_vars, codec_vars,
                 hist_vars, conc_vars>>

DecoderNext == ParseMeasurement

DecoderSpec == DecoderInit /\ [][DecoderNext]_vars

(***************************************************************************)
(* Spec: the public operations of a session, one caller.                   *)
(***************************************************************************)
\* (crc_init, crc_poly) pairs the session of Spec is constructed with
SessionConfigs == { <<DefaultCrcInit, DefaultCrcPoly>>, <<DefaultCrcInit, 49>> }

\* the complete 3-byte groups of a byte array
Groups(bytes) == 1..(Len(bytes) \div 3)

\* group g carries the checksum of its two data bytes
GroupOk(bytes, g) ==
    bytes[3 * g] = calc_crc8(<<bytes[3 * g - 2], bytes[3 * g - 1]>>)

\* the first two bytes of every complete group, in order
DataBytes(bytes) ==
    [i \in 1..(2 * (Len(bytes) \div 3)) |->
        bytes[3 * ((i - 1) \div 2) + ((i - 1) % 2) + 1]]

\* every complete group of bytes carries the checksum of its data bytes
AllGroupsOk(bytes) == \A g \in Groups(bytes) : GroupOk(bytes, g)

\* entries of trace.  A nap of time.sleep(0.5):
SleepEvent ==
    [ev |-> "sleep", w |-> <<>>, n |-> 0, r |-> <<>>, held |-> FALSE,
     valid |-> FALSE]

\* a transfer on the bus: the bytes written, the number of bytes asked for,
\* the bytes the device answered, whether the caller held the bus lock, and
\* whether the answer is intact under the checksum parameters of the session
TransferEvent(w, n, r) ==
    [ev |-> "xfer", w |-> w, n |-> n, r |-> r, held |-> (lock = 1),
     valid |-> AllGroupsOk(r)]

Init ==
    /\ \E cfg \in SessionConfigs : crc_init = cfg[1] /\ crc_poly = cfg[2]
    /\ SessionIdle
    /\ CodecOff
    /\ HistOff
    /\ DecoderOff
    /\ ConcOff

\* "with self.i2c_device as i2c:" entering: I2CDevice waits for the bus lock
I2CEnter == lock = 0 /\ lock' = 1

\* the with block left with the bus still locked
I2CExitKeepsLock == lock' = lock

\* the with block left: I2CDevice unlocks the bus
I2CExit == lock' = 0

\* an operation ends with value or exception kind
Finish(kind, val) ==
    /\ pc' = "done"
    /\ ret' = [kind |-> kind, val |-> val]

\* a public method is called: nothing done yet
Begin(o) ==
    /\ pc = "idle"
    /\ op' = o
    /\ trace' = <<>>
    /\ attempts' = 0

\* the caller takes the result; the session is at rest again
Return ==
    /\ pc = "done"
    /\ pc' = "idle"
    /\ op' = ""
    /\ attempts' = 0
    /\ cmd' = <<>>
    /\ buf' = <<>>
    /\ trace' = <<>>
    /\ ret' = NoReturn
    /\ decoder_calls' = <<>>
    /\ UNCHANGED <<lock, was_reset, config_vars, codec_vars, side_vars>>

\* startMeasurement: cmd is built; bytearray() raises ValueError on an
\* element outside range(256)
StartCall ==
    /\ Begin("startMeasurement")
    /\ LET checksum == calc_crc8(<<3, 0>>)
       IN  IF checksum \in 0..255
           THEN /\ cmd' = <<0, 16, 3, 0, checksum>>
                /\ pc' = "sm_enter"
                /\ ret' = ret
           ELSE /\ cmd' = cmd
                /\ Finish("ValueError", <<>>)
    /\ UNCHANGED <<lock, buf, config_vars, codec_vars,
                 hist_vars, side_vars>>

StartEnter ==
    /\ pc = "sm_enter"
    /\ I2CEnter
    /\ pc' = "sm_write"
    /\ UNCHANGED <<op, attempts, cmd, buf, trace, ret, config_vars, codec_vars,
                 hist_vars, side_vars>>

\* i2c.write(cmd)
StartWrite ==
    /\ pc = "sm_write"
    /\ trace' = Append(trace, TransferEvent(cmd, 0, <<>>))
    /\ pc' = "sm_exit"
    /\ UNCHANGED <<lock, op, attempts, cmd, buf, ret, config_vars, codec_vars,
                 hist_vars, side_vars>>

StartExit ==
    /\ pc = "sm_exit"
    /\ I2CExit
    /\ Finish("None", <<>>)
    /\ UNCHANGED <<op, attempts, cmd, buf, trace, config_vars, codec_vars,
                 hist_vars, side_vars>>

\* the command bytes with those of stopMeasurement and cleanFan exchanged
SendCommandBytesSwapped(o) ==
    CASE o = "stopMeasurement" -> <<86, 7>>
      [] o = "cleanFan" -> <<1, 4>>
      [] o = "reset" -> <<211, 4>>

\* the command bytes of the operations that go through sendCommand
SendCommandBytes(o) ==
    CASE o = "stopMeasurement" -> <<1, 4>>
      [] o = "cleanFan" -> <<86, 7>>
      [] o = "reset" -> <<211, 4>>

\* stopMeasurement, cleanFan, reset: self.sendCommand(bytearray([...]))
SendCall ==
    /\ \E o \in {"stopMeasurement", "cleanFan", "reset"} :
          /\ Begin(o)
          /\ cmd' = SendCommandBytes(o)
    /\ pc' = "sc_enter"
    /\ UNCHANGED <<lock, buf, ret, config_vars, codec_vars,
                 hist_vars, side_vars>>

SendEnter ==
    /\ pc = "sc_enter"
    /\ I2CEnter
    /\ pc' = "sc_write"
    /\ UNCHANGED <<op, attempts, cmd, buf, trace, ret, config_vars, codec_vars,
                 hist_vars, side_vars>>

\* sendCommand: i2c.write(cmd); the driver itself keeps no record of a reset,
\* was_reset remembers that its command went out
SendWrite ==
    /\ pc = "sc_write"
    /\ trace' = Append(trace, TransferEvent(cmd, 0, <<>>))
    /\ pc' = "sc_exit"
    /\ was_reset' = (was_reset \/ op = "reset")
    /\ UNCHANGED <<lock, op, attempts, cmd, buf, ret, decoder_calls,
                 config_vars, codec_vars, side_vars>>

SendExit ==
    /\ pc = "sc_exit"
    /\ I2CExit
    /\ Finish("None", <<>>)
    /\ UNCHANGED <<op, attempts, cmd, buf, trace, config_vars, codec_vars,
                 hist_vars, side_vars>>

\* dataReady taking the flag from index 0 of the parsed bytes
DataReadyOutcomeFirstByte(response) ==
    LET payload == parse_crc8(response)
    IN  IF ~payload.ok THEN "TypeError"
        ELSE LET data_ready == payload.data[1]
             IN  IF data_ready = 0 THEN "False"
                 ELSE IF data_ready = 1 THEN "True"
                 ELSE "None"

\* dataReady taking every flag but 0 for ready
DataReadyOutcomeNonzero(response) ==
    LET payload == parse_crc8(response)
    IN  IF ~payload.ok THEN "TypeError"
        ELSE LET data_ready == payload.data[2]
             IN  IF data_ready = 0 THEN "False" ELSE "True"

\* dataReady after the with block: parse_crc8(buf)[1] raises TypeError when
\* parse_crc8 returned False; the flag 0 gives False, 1 gives True, and any
\* other value falls off the end of the method, which returns None
DataReadyOutcome(response) ==
    LET payload == parse_crc8(response)
    IN  IF ~payload.ok THEN "TypeError"
        ELSE LET data_ready == payload.data[2]
             IN  IF data_ready = 0 THEN "False"
                 ELSE IF data_ready = 1 THEN "True"
                 ELSE "None"

\* dataReady called by the user
DataReadyCall ==
    /\ Begin("dataReady")
    /\ cmd' = <<2, 2>>
    /\ buf' = Zeros(DataReadyLen)
    /\ pc' = "dr_enter"
    /\ UNCHANGED <<lock, ret, config_vars, codec_vars,
                 hist_vars, side_vars>>

DataReadyEnter ==
    /\ pc = "dr_enter"
    /\ I2CEnter
    /\ pc' = "dr_xfer"
    /\ UNCHANGED <<op, attempts, cmd, buf, trace, ret, config_vars, codec_vars,
                 hist_vars, side_vars>>

\* dataReady: i2c.write_then_readinto(cmd, buf); the device fills buf
DataReadyTransfer ==
    /\ pc = "dr_xfer"
    /\ \E response \in DataReadyResponses :
          /\ buf' = response
          /\ trace' = Append(trace, TransferEvent(cmd, Len(buf), response))
    /\ pc' = "dr_exit"
    /\ UNCHANGED <<lock, op, attempts, cmd, ret, config_vars, codec_vars,
                 hist_vars, side_vars>>

DataReadyExit ==
    /\ pc = "dr_exit"
    /\ I2CExit
    /\ pc' = "dr_parse"
    /\ UNCHANGED <<op, attempts, cmd, buf, trace, ret, config_vars, codec_vars,
                 hist_vars, side_vars>>

\* dataReady returns to the user, or raises
DataReadyReturn ==
    /\ pc = "dr_parse"
    /\ op = "dataReady"
    /\ Finish(DataReadyOutcome(buf), <<>>)
    /\ UNCHANGED <<lock, op, attempts, cmd, buf, trace, config_vars, codec_vars,
                 hist_vars, side_vars>>

\* readMeasurement is called
ReadCall ==
    /\ Begin("readMeasurement")
    /\ pc' = "rm_loop"
    /\ UNCHANGED <<lock, cmd, buf, ret, config_vars, codec_vars,
                 hist_vars, side_vars>>

\* "if attempts > 0" with a condition that always holds
NeedsBackoffAlways(a) == a >= 0

\* readMeasurement: if attempts > 0
NeedsBackoff(a) == a > 0

\* readMeasurement: one more pass of "for attempts in range(5)": the nap
\* when it is not the first pass, then dataReady is called
ReadIterateOnceMore ==
    /\ pc = "rm_loop"
    /\ attempts <= MaxAttempts
    /\ trace' = IF NeedsBackoff(attempts) THEN Append(trace, SleepEvent)
                ELSE trace
    /\ cmd' = <<2, 2>>
    /\ buf' = Zeros(DataReadyLen)
    /\ pc' = "dr_enter"
    /\ UNCHANGED <<lock, op, attempts, ret, config_vars, codec_vars,
                 hist_vars, side_vars>>

ReadIterate ==
    /\ pc = "rm_loop"
    /\ attempts < MaxAttempts
    /\ trace' = IF NeedsBackoff(attempts) THEN Append(trace, SleepEvent)
                ELSE trace
    /\ cmd' = <<2, 2>>
    /\ buf' = Zeros(DataReadyLen)
    /\ pc' = "dr_enter"
    /\ UNCHANGED <<lock, op, attempts, ret, config_vars, codec_vars,
                 hist_vars, side_vars>>

\* readMeasurement: the loop ran out; the method returns None
ReadExhausted ==
    /\ pc = "rm_loop"
    /\ attempts = MaxAttempts
    /\ Finish("None", <<>>)
    /\ UNCHANGED <<lock, op, attempts, cmd, buf, trace, config_vars, codec_vars,
                 hist_vars, side_vars>>

\* readMeasurement taking an exception of dataReady for not ready
ReadPollCountsCorrupt ==
    /\ pc = "dr_parse"
    /\ op = "readMeasurement"
    /\ LET ready == DataReadyOutcome(buf)
       IN  CASE ready = "True" ->
                  /\ cmd' = <<3, 0>>
                  /\ buf' = Zeros(MeasurementLen)
                  /\ pc' = "rm_enter"
                  /\ UNCHANGED <<attempts, ret>>
             [] OTHER ->
                  /\ attempts' = attempts + 1
                  /\ pc' = "rm_loop"
                  /\ UNCHANGED <<cmd, buf, ret>>
    /\ UNCHANGED <<lock, op, trace, config_vars, codec_vars,
                 hist_vars, side_vars>>

\* readMeasurement: "if self.dataReady():" an exception of dataReady leaves
\* readMeasurement too, False and None go to the next pass
ReadPoll ==
    /\ pc = "dr_parse"
    /\ op = "readMeasurement"
    /\ LET ready == DataReadyOutcome(buf)
       IN  CASE ready = "TypeError" ->
                  /\ Finish("TypeError", <<>>)
                  /\ UNCHANGED <<attempts, cmd, buf>>
             [] ready = "True" ->
                  /\ cmd' = <<3, 0>>
                  /\ buf' = Zeros(MeasurementLen)
                  /\ pc' = "rm_enter"
                  /\ UNCHANGED <<attempts, ret>>
             [] OTHER ->
                  /\ attempts' = attempts + 1
                  /\ pc' = "rm_loop"
                  /\ UNCHANGED <<cmd, buf, ret>>
    /\ UNCHANGED <<lock, op, trace, config_vars, codec_vars,
                 hist_vars, side_vars>>

ReadEnter ==
    /\ pc = "rm_enter"
    /\ I2CEnter
    /\ pc' = "rm_xfer"
    /\ UNCHANGED <<op, attempts, cmd, buf, trace, ret, config_vars, codec_vars,
                 hist_vars, side_vars>>

\* readMeasurement: i2c.write_then_readinto(cmd, buf)
ReadTransfer ==
    /\ pc = "rm_xfer"
    /\ \E response \in MeasurementResponses :
          /\ buf' = response
          /\ trace' = Append(trace, TransferEvent(cmd, Len(buf), response))
    /\ pc' = "rm_exit"
    /\ UNCHANGED <<lock, op, attempts, cmd, ret, config_vars, codec_vars,
                 hist_vars, side_vars>>

ReadExit ==
    /\ pc = "rm_exit"
    /\ I2CExit
    /\ pc' = "rm_parse"
    /\ UNCHANGED <<op, attempts, cmd, buf, trace, ret, config_vars, codec_vars,
                 hist_vars, side_vars>>

\* readMeasurement leaving with an error when parse_crc8 returned False
ReadParseAborts ==
    /\ pc = "rm_parse"
    /\ LET measurement == parse_crc8(buf)
       IN  IF measurement # ParseFalse
           THEN /\ Finish("Measurement", parseMeasurement(measurement.data))
                /\ decoder_calls' = Append(decoder_calls, measurement.data)
           ELSE /\ Finish("ChecksumMismatch", <<>>)
                /\ UNCHANGED decoder_calls
    /\ UNCHANGED <<lock, op, attempts, cmd, buf, trace, was_reset,
                 config_vars, codec_vars, side_vars>>

\* readMeasurement handing whatever parse_crc8 returned to parseMeasurement
ReadParseUnchecked ==
    /\ pc = "rm_parse"
    /\ LET measurement == parse_crc8(buf)
       IN  /\ decoder_calls' = Append(decoder_calls, measurement.data)
           /\ IF measurement # ParseFalse
              THEN Finish("Measurement", parseMeasurement(measurement.data))
              ELSE Finish("TypeError", <<>>)
    /\ UNCHANGED <<lock, op, attempts, cmd, buf, trace, was_reset,
                 config_vars, codec_vars, side_vars>>

\* readMeasurement: measurement = self.parse_crc8(buf); a measurement is
\* parsed and returned, after False the loop goes on
ReadParse ==
    /\ pc = "rm_parse"
    /\ LET measurement == parse_crc8(buf)
       IN  IF measurement # ParseFalse
           THEN /\ Finish("Measurement", parseMeasurement(measurement.data))
                /\ decoder_calls' = Append(decoder_calls, measurement.data)
                /\ UNCHANGED attempts
           ELSE /\ attempts' = attempts + 1
                /\ pc' = "rm_loop"
                /\ UNCHANGED <<ret, decoder_calls>>
    /\ UNCHANGED <<lock, op, cmd, buf, trace, was_reset,
                 config_vars, codec_vars, side_vars>>

\* the characters of the code points 32..126, in order (the grave accent,
\* code point 96, by its name)
Ascii ==
    <<" ", "!", "\"", "#", "$", "%", "&", "'", "(", ")", "*", "+",
       ",", "-", ".", "/", "0", "1", "2", "3", "4", "5", "6", "7",
       "8", "9", ":", ";", "<", "=", ">", "?", "@", "A", "B", "C",
       "D", "E", "F", "G", "H", "I", "J", "K", "L", "M", "N", "O",
       "P", "Q", "R", "S", "T", "U", "V", "W", "X", "Y", "Z", "[",
       "\\", "]", "^", "_", "grave", "a", "b", "c", "d", "e", "f", "g",
       "h", "i", "j", "k", "l", "m", "n", "o", "p", "q", "r", "s",
       "t", "u", "v", "w", "x", "y", "z", "{", "|", "}", "~">>

\* chr(i) of Python: the character of code point i; a character without a
\* glyph is written as the text of <<i>>
chr(i) == IF i \in 32..126 THEN Ascii[i - 31] ELSE ToString(<<i>>)

\* a str as the sequence of its characters
Str(bytes) == [k \in DOMAIN bytes |-> chr(bytes[k])]

\* getSerialNumber keeping the blank and DEL as well
PrintableInclusive(i) == i >= 32 /\ i <= 127

\* getSerialNumber: the printable ASCII bytes
Printable(i) == i > 32 /\ i < 127

SerialCall ==
    /\ Begin("getSerialNumber")
    /\ cmd' = <<208, 51>>
    /\ buf' = Zeros(SerialLen)
    /\ pc' = "sn_enter"
    /\ UNCHANGED <<lock, ret, config_vars, codec_vars,
                 hist_vars, side_vars>>

SerialEnter ==
    /\ pc = "sn_enter"
    /\ I2CEnter
    /\ pc' = "sn_xfer"
    /\ UNCHANGED <<op, attempts, cmd, buf, trace, ret, config_vars, codec_vars,
                 hist_vars, side_vars>>

\* getSerialNumber: i2c.write_then_readinto(cmd, buf)
SerialTransfer ==
    /\ pc = "sn_xfer"
    /\ \E response \in SerialResponses :
          /\ buf' = response
          /\ trace' = Append(trace, TransferEvent(cmd, Len(buf), response))
    /\ pc' = "sn_exit"
    /\ UNCHANGED <<lock, op, attempts, cmd, ret, config_vars, codec_vars,
                 hist_vars, side_vars>>

SerialExit ==
    /\ pc = "sn_exit"
    /\ I2CExit
    /\ pc' = "sn_parse"
    /\ UNCHANGED <<op, attempts, cmd, buf, trace, ret, config_vars, codec_vars,
                 hist_vars, side_vars>>

\* getSerialNumber: "for i in self.parse_crc8(buf)" raises TypeError when
\* parse_crc8 returned False; else the printable bytes are kept, in order
SerialReturn ==
    /\ pc = "sn_parse"
    /\ LET payload == parse_crc8(buf)
       IN  IF ~payload.ok THEN Finish("TypeError", <<>>)
           ELSE Finish("Serial", Str(SelectSeq(payload.data, Printable)))
    /\ UNCHANGED <<lock, op, attempts, cmd, buf, trace, config_vars, codec_vars,
                 hist_vars, side_vars>>

Next ==
    \/ StartCall
    \/ StartEnter
    \/ StartWrite
    \/ StartExit
    \/ SendCall
    \/ SendEnter
    \/ SendWrite
    \/ SendExit
    \/ DataReadyCall
    \/ DataReadyEnter
    \/ DataReadyTransfer
    \/ DataReadyExit
    \/ DataReadyReturn
    \/ ReadCall
    \/ ReadIterate
    \/ ReadExhausted
    \/ ReadPoll
    \/ ReadEnter
    \/ ReadTransfer
    \/ ReadExit
    \/ ReadParse
    \/ SerialCall
    \/ SerialEnter
    \/ SerialTransfer
    \/ SerialExit
    \/ SerialReturn
    \/ Return

Spec == Init /\ [][Next]_vars

\* the positions of the caller
Positions ==
    {"idle", "done", "sm_enter", "sm_write", "sm_exit", "sc_enter", "sc_write",
     "sc_exit", "dr_enter", "dr_xfer", "dr_exit", "dr_parse", "rm_loop",
     "rm_enter", "rm_xfer", "rm_exit", "rm_parse", "sn_enter", "sn_xfer",
     "sn_exit", "sn_parse"}

\* the running call moves on to another position; every action of Next
\* moves pc, so inside a call a step of Next is a step of Advance
Advance == pc # "idle" /\ pc' \in Positions \ {pc}

\* a call that has begun keeps running: the interpreter executes the next
\* statement, the device answers every transfer, the bus lock is free when
\* the single caller asks for it, time.sleep returns.  Whether a new call is
\* made at all is left to the user.
FairSpec == Spec /\ WF_pc(Advance)

\* the session has the default checksum parameters
DefaultConfig == crc_init = DefaultCrcInit /\ crc_poly = DefaultCrcPoly

(***************************************************************************)
(* Properties of the operations, checked under Spec.                       *)
(***************************************************************************)
IsTransfer(e) == e.ev = "xfer"
\* a data-ready query, a read-measurement exchange
IsQuery(e) == e.ev = "xfer" /\ e.w = <<2, 2>>
IsRead(e) == e.ev = "xfer" /\ e.w = <<3, 0>>
\* the device answered an intact frame whose flag (payload index 1) is 1
ReportsReady(e) == IsQuery(e) /\ e.valid /\ e.r[2] = 1
\* the device answered an intact frame with another flag
ReportsNotReady(e) == IsQuery(e) /\ e.valid /\ e.r[2] # 1
\* the answer to a read-measurement exchange fails checksum validation
IsBadRead(e) == IsRead(e) /\ ~e.valid

\* the positions of the data-ready queries in trace
QueryPositions == { i \in DOMAIN trace : IsQuery(trace[i]) }
\* the position of the k-th data-ready query
QueryAt(k) ==
    CHOOSE i \in QueryPositions :
        Cardinality({ j \in QueryPositions : j <= i }) = k

ReturnedNone == ret = [kind |-> "None", val |-> <<>>]

\* trace[1..2k-1] is k data-ready queries of 3 bytes with a nap before each
\* but the first
PollsWithBackoff(k) ==
    /\ Len(trace) >= 2 * k - 1
    /\ \A i \in 1..(2 * k - 1) :
          IF i % 2 = 1
          THEN IsQuery(trace[i]) /\ trace[i].n = DataReadyLen
          ELSE trace[i] = SleepEvent

\* C1 as stated: once a read-measurement response has failed checksum
\* validation the call is over: nothing follows it in the call (no nap, no
\* query, no read), and the call does not end like NoDataAvailable (None).
C1_EndsAtOnce ==
    \A i \in DOMAIN trace :
        IsBadRead(trace[i]) =>
            /\ i = Len(trace)
            /\ pc \in {"rm_exit", "rm_parse", "done"}
            /\ pc = "done" => ~ReturnedNone

\* C1 amended: a read-measurement response that fails checksum validation
\* does not end the call.  The pass counts as used and the loop goes on: what
\* follows in the call is a nap and then the next data-ready query; the call
\* ends right after the failed read only when that was the 5th pass, and then
\* it returns None, the outcome of NoDataAvailable.
C1_RetriesAfterBadRead ==
    \A i \in DOMAIN trace :
        IsBadRead(trace[i]) =>
            /\ i < Len(trace) => trace[i + 1] = SleepEvent
            /\ i + 1 < Len(trace) => IsQuery(trace[i + 2])
            /\ i = Len(trace) => pc \in {"rm_exit", "rm_parse", "rm_loop", "done"}
            /\ (i = Len(trace) /\ pc = "done") =>
                   /\ ReturnedNone
                   /\ Cardinality(QueryPositions) = MaxAttempts

\* C1 witness: a call that is over, in which a read failed checksum validation
\* and a nap and another query followed.
C1_Witness ==
    /\ pc = "done"
    /\ op = "readMeasurement"
    /\ \E i \in DOMAIN trace :
          /\ IsBadRead(trace[i])
          /\ i + 1 < Len(trace)
          /\ trace[i + 1] = SleepEvent
          /\ IsQuery(trace[i + 2])

\* C2: a readMeasurement call in which every data-ready query reported
\* not-ready made exactly 5 queries and 4 naps, a nap before each query but
\* the first, made no read-measurement exchange, and returned None.
C2_NeverReady ==
    (/\ pc = "done"
     /\ op = "readMeasurement"
     /\ \A i \in QueryPositions : ReportsNotReady(trace[i]))
        => /\ Len(trace) = 2 * MaxAttempts - 1
           /\ PollsWithBackoff(MaxAttempts)
           /\ \A i \in DOMAIN trace : ~IsRead(trace[i])
           /\ ReturnedNone

\* C2 witness: such a call is over, with flags 0 and 2 among the answers.
C2_Witness ==
    /\ pc = "done"
    /\ op = "readMeasurement"
    /\ Cardinality(QueryPositions) = MaxAttempts
    /\ \A i \in QueryPositions : ReportsNotReady(trace[i])
    /\ \E i, j \in QueryPositions : trace[i].r[2] = 0 /\ trace[j].r[2] = 2
    /\ ReturnedNone

\* the data-ready queries 1..k-1 reported not-ready and query k reported
\* ready, and every measurement response of the call was checksum-valid
FirstReadyAt(k) ==
    /\ Cardinality(QueryPositions) >= k
    /\ \A j \in 1..(k - 1) : ReportsNotReady(trace[QueryAt(j)])
    /\ ReportsReady(trace[QueryAt(k)])
    /\ \A i \in DOMAIN trace : ~IsBadRead(trace[i])

\* C3: a readMeasurement call in which the data-ready query first reported
\* ready on attempt k, and the measurement response was checksum-valid, made
\* exactly k queries and k-1 naps, then exactly one read-measurement exchange
\* of 60 bytes, and returned the measurement decoded from its data bytes.
C3_ReadyAtK ==
    (pc = "done" /\ op = "readMeasurement") =>
        \A k \in 1..MaxAttempts :
            FirstReadyAt(k) =>
                /\ Len(trace) = 2 * k
                /\ PollsWithBackoff(k)
                /\ IsRead(trace[2 * k])
                /\ trace[2 * k].n = MeasurementLen
                /\ ret = [kind |-> "Measurement",
                          val |-> parseMeasurement(DataBytes(trace[2 * k].r))]

\* C3 witness: ready on the 3rd attempt: query, nap, query, nap, query, read.
C3_Witness ==
    /\ pc = "done"
    /\ op = "readMeasurement"
    /\ FirstReadyAt(3)
    /\ Len(trace) = 6
    /\ trace[2] = SleepEvent
    /\ trace[4] = SleepEvent
    /\ IsRead(trace[6])
    /\ ret.kind = "Measurement"

\* the request bytes and response length of each operation
Catalog(o) ==
    CASE o = "startMeasurement" -> { <<<<0, 16, 3, 0, calc_crc8(<<3, 0>>)>>, 0>> }
      [] o = "stopMeasurement" -> { <<<<1, 4>>, 0>> }
      [] o = "cleanFan" -> { <<<<86, 7>>, 0>> }
      [] o = "reset" -> { <<<<211, 4>>, 0>> }
      [] o = "dataReady" -> { <<<<2, 2>>, 3>> }
      [] o = "readMeasurement" -> { <<<<2, 2>>, 3>>, <<<<3, 0>>, 60>> }
      [] o = "getSerialNumber" -> { <<<<208, 51>>, 47>> }
      [] OTHER -> {}

\* C9: every transfer of an operation writes the request bytes of the
\* catalog and reads the response length of the catalog, a query of
\* readMeasurement reads 3 bytes and a read 60; with the default parameters
\* the start command ends in 0xAC, the checksum of 03 00; and an operation
\* other than readMeasurement that returned made exactly one transfer.
C9_CatalogBytes ==
    /\ \A i \in DOMAIN trace :
          IsTransfer(trace[i]) =>
              /\ <<trace[i].w, trace[i].n>> \in Catalog(op)
              /\ Len(trace[i].r) = trace[i].n
              /\ IsQuery(trace[i]) => trace[i].n = 3
              /\ IsRead(trace[i]) => trace[i].n = 60
              /\ (op = "startMeasurement" /\ DefaultConfig)
                     => trace[i].w = <<0, 16, 3, 0, 172>>
    /\ (pc = "done" /\ op # "readMeasurement" /\ ret.kind # "ValueError")
           => Len(trace) = 1 /\ IsTransfer(trace[1])

\* C9 witness: stopMeasurement has returned after writing 01 04.
C9_Witness ==
    /\ pc = "done"
    /\ op = "stopMeasurement"
    /\ Len(trace) = 1
    /\ IsTransfer(trace[1])
    /\ trace[1].w = <<1, 4>>
    /\ trace[1].n = 0

\* the positions inside a with block, after the bus lock was taken
InsideWith ==
    pc \in {"sm_write", "sm_exit", "sc_write", "sc_exit", "dr_xfer", "dr_exit",
            "rm_xfer", "rm_exit", "sn_xfer", "sn_exit"}

\* C10: every transfer happens while the caller holds the bus, the bus is
\* held only inside a with block, and when an operation has ended, whatever
\* way (a value, None, an exception after a checksum failure), the bus is
\* free.
C10_BusReleased ==
    /\ \A i \in DOMAIN trace : IsTransfer(trace[i]) => trace[i].held
    /\ lock = 1 <=> InsideWith
    /\ pc \in {"idle", "done"} => lock = 0

\* C10 witness: readMeasurement has ended after a read that failed checksum
\* validation, every transfer was made holding the bus, and the bus is free.
C10_Witness ==
    /\ pc = "done"
    /\ op = "readMeasurement"
    /\ \E i \in DOMAIN trace : IsBadRead(trace[i])
    /\ \A i \in DOMAIN trace : IsTransfer(trace[i]) => trace[i].held
    /\ lock = 0

\* C12: when the answer to the serial-number request is intact,
\* getSerialNumber returns the payload bytes (the first two bytes of every
\* group) that are greater than 0x20 and less than 0x7F, in their order, as
\* characters, and no other byte; payload 41 00 42 33 and zeros gives "AB3".
C12_SerialIsPrintableSubsequence ==
    (pc = "done" /\ op = "getSerialNumber" /\ trace[1].valid) =>
        LET payload == DataBytes(trace[1].r)
            kept == SelectSeq(payload, LAMBDA b : b \in 33..126)
        IN  /\ ret.kind = "Serial"
            /\ Len(ret.val) = Len(kept)
            /\ \A k \in DOMAIN kept : ret.val[k] = Ascii[kept[k] - 31]
            /\ SubSeq(payload, 1, 4) = <<65, 0, 66, 51>>
               /\ (\A k \in 5..Len(payload) : payload[k] = 0)
                  => ret.val = <<"A", "B", "3">>

\* C12 witness: getSerialNumber has returned "AB3" for the payload
\* 41 00 42 33 followed by zeros.
C12_Witness ==
    /\ pc = "done"
    /\ op = "getSerialNumber"
    /\ trace[1].valid
    /\ SubSeq(DataBytes(trace[1].r), 1, 4) = <<65, 0, 66, 51>>
    /\ ret = [kind |-> "Serial", val |-> <<"A", "B", "3">>]

\* C13 as stated: when the answer to the serial-number request fails
\* checksum validation, getSerialNumber ends with a failure that says so
\* (ChecksumMismatch or MalformedFrame) and with no serial string.
C13_TypedFailure ==
    (pc = "done" /\ op = "getSerialNumber" /\ ~trace[1].valid) =>
        /\ ret.kind \in {"ChecksumMismatch", "MalformedFrame"}
        /\ ret.val = <<>>

\* C15: every argument parseMeasurement is called with is 40 bytes long and
\* is the payload of a 60-byte read-measurement answer of the same call in
\* which every group passed checksum validation; it is called at most once,
\* and never for an answer that failed validation.
C15_DecoderGetsValidatedPayload ==
    /\ Len(decoder_calls) <= 1
    /\ \A k \in DOMAIN decoder_calls :
          /\ Len(decoder_calls[k]) = 40
          /\ op = "readMeasurement"
          /\ LET e == trace[Len(trace)]
             IN  /\ IsRead(e)
                 /\ e.valid
                 /\ Len(e.r) = 60
                 /\ decoder_calls[k] = DataBytes(e.r)

\* C15 witness: a readMeasurement that met a corrupted read first, retried,
\* and handed the 40 validated bytes of the second read to parseMeasurement.
C15_Witness ==
    /\ pc = "done"
    /\ op = "readMeasurement"
    /\ \E i \in DOMAIN trace : IsBadRead(trace[i])
    /\ Len(decoder_calls) = 1
    /\ Len(decoder_calls[1]) = 40
    /\ ret.kind = "Measurement"

\* C17 as stated: once reset() has sent its command, no other operation
\* called on the same session (startMeasurement, stopMeasurement, dataReady,
\* readMeasurement, cleanFan, getSerialNumber) makes a transfer on the bus.
C17_ResetIsTerminal ==
    (was_reset /\ op # "reset") =>
        \A i \in DOMAIN trace : ~IsTransfer(trace[i])

\* C16: a readMeasurement call never makes more than 5 data-ready queries,
\* more than 5 passes of its loop or more read-measurement exchanges than
\* queries, and every call that has begun ends, whatever the device answers.
C16_TerminatesWithinFive ==
    /\ [](op = "readMeasurement" =>
            /\ Cardinality(QueryPositions) <= 5
            /\ attempts <= 5
            /\ Cardinality({ i \in DOMAIN trace : IsRead(trace[i]) })
                  <= Cardinality(QueryPositions))
    /\ (op = "readMeasurement") ~> (op = "readMeasurement" /\ pc = "done")

\* C16 witness: a readMeasurement has ended at its fifth query, having made
\* a read-measurement exchange in some passes and none in others.
C16_Witness ==
    /\ pc = "done"
    /\ op = "readMeasurement"
    /\ Cardinality(QueryPositions) = 5
    /\ \E i \in DOMAIN trace : IsRead(trace[i])
    /\ \E i \in QueryPositions : ReportsNotReady(trace[i])

\* the answer to a data-ready query fails checksum validation
IsBadQuery(e) == IsQuery(e) /\ ~e.valid

\* C18: in readMeasurement a read-measurement exchange (03 00) is issued if
\* and only if the data-ready query of the same attempt was answered by an
\* intact frame whose flag (payload index 1) is 1: every read comes right
\* after such a query, such a query is followed by nothing but the read, and
\* after a query answered with another flag no read follows and the call
\* goes on polling.
C18_ReadIffReady ==
    op = "readMeasurement" =>
        \A i \in DOMAIN trace :
            /\ IsRead(trace[i]) => i > 1 /\ ReportsReady(trace[i - 1])
            /\ ReportsReady(trace[i]) =>
                  IF i < Len(trace)
                  THEN IsRead(trace[i + 1])
                  ELSE pc \in {"dr_exit", "dr_parse", "rm_enter", "rm_xfer"}
            /\ ReportsNotReady(trace[i]) =>
                  IF i < Len(trace)
                  THEN trace[i + 1] = SleepEvent
                  ELSE \/ pc \in {"dr_exit", "dr_parse", "rm_loop"}
                       \/ pc = "done" /\ ReturnedNone

\* C18 witness: a readMeasurement that met the flag 2, polled again, was told
\* ready and read.
C18_Witness ==
    /\ pc = "done"
    /\ op = "readMeasurement"
    /\ \E i \in DOMAIN trace : ReportsNotReady(trace[i]) /\ trace[i].r[2] = 2
    /\ \E i \in DOMAIN trace : IsRead(trace[i])

\* C19: a data-ready response that fails checksum validation ends dataReady
\* with an exception, neither True nor False nor None; inside readMeasurement
\* the exception ends the call at once: the corrupted query is the last
\* thing the call did, attempts was not incremented for it, and the call
\* ends with the exception.
C19_CorruptQueryEndsCall ==
    /\ op = "dataReady" /\ pc = "done" /\ IsBadQuery(trace[1])
          => ret.kind = "TypeError"
    /\ op = "readMeasurement" =>
          \A i \in DOMAIN trace :
              IsBadQuery(trace[i]) =>
                  /\ i = Len(trace)
                  /\ pc \in {"dr_exit", "dr_parse", "done"}
                  /\ pc = "done" => ret.kind = "TypeError"
                  /\ attempts = Cardinality(QueryPositions) - 1

\* C19 witness: a readMeasurement whose third data-ready query was answered
\* by a corrupted frame has ended with the exception.
C19_Witness ==
    /\ pc = "done"
    /\ op = "readMeasurement"
    /\ Cardinality(QueryPositions) = 3
    /\ IsBadQuery(trace[Len(trace)])
    /\ ret.kind = "TypeError"

(***************************************************************************)
(* ConcSpec: two callers on the same bus, each making the exchanges of     *)
(* the driver one after another, step by step.                             *)
(***************************************************************************)
Callers == {1, 2}

caller_vars == <<pc, op, attempts, cmd, buf, trace, ret>>

\* every exchange of the driver: the bytes written and the size of buf
Exchanges ==
    { [cmd |-> <<0, 16, 3, 0, calc_crc8(<<3, 0>>)>>, n |-> 0],
      [cmd |-> <<1, 4>>, n |-> 0],
      [cmd |-> <<2, 2>>, n |-> DataReadyLen],
      [cmd |-> <<3, 0>>, n |-> MeasurementLen],
      [cmd |-> <<86, 7>>, n |-> 0],
      [cmd |-> <<208, 51>>, n |-> SerialLen],
      [cmd |-> <<211, 4>>, n |-> 0] }

\* the frames the device of ConcSpec holds ready: data ready, a
\* measurement, the serial number
DataReadyReply == Frame(<<0, 1>>)
MeasurementReply == Frame(SamplePayload)
SerialReply == Frame(SampleSerial) \o <<0, 0>>

\* what the device holds ready after request req
Reply(req) ==
    CASE req = <<2, 2>> -> DataReadyReply
      [] req = <<3, 0>> -> MeasurementReply
      [] req = <<208, 51>> -> SerialReply
      [] OTHER -> <<>>

\* the n bytes a read gets from the device after request req: the reply,
\* then FF when the device has nothing more to send
Answer(req, n) ==
    LET reply == Reply(req)
    IN  [k \in 1..n |-> IF k <= Len(reply) THEN reply[k] ELSE 255]

ConcInit ==
    /\ crc_init = DefaultCrcInit
    /\ crc_poly = DefaultCrcPoly
    /\ SessionIdle
    /\ CodecOff
    /\ HistOff
    /\ DecoderOff
    /\ t_pc = [c \in Callers |-> "idle"]
    /\ t_cmd = [c \in Callers |-> <<>>]
    /\ t_buf = [c \in Callers |-> <<>>]
    /\ dev_req = <<>>
    /\ wire = <<NoTransfer, NoTransfer>>

\* caller c entering a with block without waiting for the bus lock
I2CEnterByNoWait(c) == lock' = c

\* "with self.i2c_device as i2c:" entered by caller c: I2CDevice waits
\* until the bus lock is free and takes it
I2CEnterBy(c) == lock = 0 /\ lock' = c

\* caller c builds cmd and buf of one of the exchanges
ExchangeCall(c) ==
    /\ t_pc[c] = "idle"
    /\ \E x \in Exchanges :
          /\ t_cmd' = [t_cmd EXCEPT ![c] = x.cmd]
          /\ t_buf' = [t_buf EXCEPT ![c] = Zeros(x.n)]
    /\ t_pc' = [t_pc EXCEPT ![c] = "enter"]
    /\ UNCHANGED <<lock, dev_req, wire, caller_vars, config_vars, codec_vars,
                 hist_vars, decoder_vars>>

ExchangeEnter(c) ==
    /\ t_pc[c] = "enter"
    /\ I2CEnterBy(c)
    /\ t_pc' = [t_pc EXCEPT ![c] = "write"]
    /\ UNCHANGED <<t_cmd, t_buf, dev_req, wire, caller_vars, config_vars,
                 codec_vars, hist_vars, decoder_vars>>

\* i2c.write(cmd), or the write half of i2c.write_then_readinto(cmd, buf)
ExchangeWrite(c) ==
    /\ t_pc[c] = "write"
    /\ dev_req' = t_cmd[c]
    /\ wire' = <<wire[2], [who |-> c, what |-> "write", req |-> t_cmd[c]]>>
    /\ t_pc' = [t_pc EXCEPT ![c] = IF Len(t_buf[c]) = 0 THEN "exit" ELSE "read"]
    /\ UNCHANGED <<lock, t_cmd, t_buf, caller_vars, config_vars, codec_vars,
                 hist_vars, decoder_vars>>

\* the read half of i2c.write_then_readinto(cmd, buf): the device answers
\* the request it received last
ExchangeRead(c) ==
    /\ t_pc[c] = "read"
    /\ t_buf' = [t_buf EXCEPT ![c] = Answer(dev_req, Len(t_buf[c]))]
    /\ wire' = <<wire[2], [who |-> c, what |-> "read", req |-> dev_req]>>
    /\ t_pc' = [t_pc EXCEPT ![c] = "exit"]
    /\ UNCHANGED <<lock, t_cmd, dev_req, caller_vars, config_vars, codec_vars,
                 hist_vars, decoder_vars>>

\* the with block is left and the bus unlocked; what the method does with
\* buf afterwards is not on the bus, its locals are gone when it returns
ExchangeExit(c) ==
    /\ t_pc[c] = "exit"
    /\ I2CExit
    /\ t_cmd' = [t_cmd EXCEPT ![c] = <<>>]
    /\ t_buf' = [t_buf EXCEPT ![c] = <<>>]
    /\ t_pc' = [t_pc EXCEPT ![c] = "idle"]
    /\ UNCHANGED <<dev_req, wire, caller_vars, config_vars, codec_vars,
                 hist_vars, decoder_vars>>

ConcNext ==
    \E c \in Callers :
        \/ ExchangeCall(c)
        \/ ExchangeEnter(c)
        \/ ExchangeWrite(c)
        \/ ExchangeRead(c)
        \/ ExchangeExit(c)

ConcSpec == ConcInit /\ [][ConcNext]_vars

(***************************************************************************)
(* Properties of the exchanges, checked under ConcSpec.                    *)
(***************************************************************************)
\* C11: with two callers interleaved, every exchange is atomic on the bus:
\* the transfer right before a read is the write of the same caller with
\* the request the device answers, the transfer right after the write of a
\* request that has a response is the read of the same caller, and the
\* bytes a caller has read are the answer to the request it wrote.
C11_ExchangeAtomic ==
    /\ wire[2].what = "read" =>
          wire[1] = [who |-> wire[2].who, what |-> "write",
                     req |-> wire[2].req]
    /\ (wire[1].what = "write" /\ Reply(wire[1].req) # <<>>) =>
          wire[2] = [who |-> wire[1].who, what |-> "read",
                     req |-> wire[1].req]
    /\ \A c \in Callers :
          (t_pc[c] = "exit" /\ Len(t_buf[c]) > 0) =>
              t_buf[c] = Answer(t_cmd[c], Len(t_buf[c]))

\* C11 witness: caller 1 has read the 3-byte answer to its data-ready query
\* while caller 2, in the middle of a read-measurement exchange of its own,
\* waits for the bus.
C11_Witness ==
    /\ t_pc[1] = "exit"
    /\ t_cmd[1] = <<2, 2>>
    /\ t_buf[1] = DataReadyReply
    /\ t_pc[2] = "enter"
    /\ t_cmd[2] = <<3, 0>>
    /\ wire[2] = [who |-> 1, what |-> "read", req |-> <<2, 2>>]

(***************************************************************************)
(* Properties of the measurement decoder, checked under DecoderSpec.       *)
(***************************************************************************)
\* the big-endian IEEE-754 single whose bytes are b0 b1 b2 b3: sign bit,
\* 8 exponent bits, 23 fraction bits
Single(b0, b1, b2, b3) ==
    [sign |-> IF b0 >= 128 THEN 1 ELSE 0,
     exponent |-> ((b0 * 256 + b1) \div 128) % 256,
     fraction |-> (b1 % 128) * 65536 + b2 * 256 + b3]

\* C14: on a 40-byte payload parseMeasurement gives exactly 10 fields, named
\* Mass PM1.0, PM2.5, PM4.0, PM10, Number PM0.5, PM1.0, PM2.5, PM4.0, PM10,
\* Typical Particle Size in this order; field i (0..9) is the big-endian
\* single of payload bytes 4i..4i+3, whatever the other bytes are; the
\* all-zero payload gives ten times 0.0.
C14_TenFieldsInOrder ==
    d_pc = "decoded" =>
        /\ Len(fields) = 10
        /\ [i \in 1..10 |-> fields[i].key] =
              <<"Mass Concentration PM 1.0 [ug/m3]",
                "Mass Concentration PM 2.5 [ug/m3]",
                "Mass Concentration PM 4.0 [ug/m3]",
                "Mass Concentration PM 10 [ug/m3]",
                "Number Concentration PM 0.5 [#/m3]",
                "Number Concentration PM 1.0 [#/m3]",
                "Number Concentration PM 2.5 [#/m3]",
                "Number Concentration PM 4.0 [#/m3]",
                "Number Concentration PM 10 [#/m3]",
                "Typical Particle Size [um]">>
        /\ \A i \in 0..9 :
              fields[i + 1].value =
                  Single(d_measurement[4 * i + 1], d_measurement[4 * i + 2],
                         d_measurement[4 * i + 3], d_measurement[4 * i + 4])
        /\ (\A k \in 1..40 : d_measurement[k] = 0) =>
              \A i \in 1..10 :
                  fields[i].value = [sign |-> 0, exponent |-> 0, fraction |-> 0]

\* C14 witness: the sample payload with the sign bit set in the first byte of
\* its third window is decoded: field 0 is 12.5 (41 48 00 00), field 2 is
\* negative, field 9 comes from the last four bytes 33 34 35 36 (decimal).
C14_Witness ==
    /\ d_pc = "decoded"
    /\ Len(d_measurement) = 40
    /\ fields[1].value = [sign |-> 0, exponent |-> 130, fraction |-> 4718592]
    /\ fields[3].value.sign = 1
    /\ fields[10].value = Single(33, 34, 35, 36)

(***************************************************************************)
(* Properties of the CRC8 helpers, checked under CodecSpec.                *)
(***************************************************************************)
\* C4: parse_crc8 is all-or-nothing: if any group's third byte differs from
\* the checksum of its first two bytes, it returns False and no payload, not
\* the groups before the bad one and not the groups around it.
C4_AllOrNothing ==
    (c_pc = "parsed" /\ \E g \in Groups(byte_array) : ~GroupOk(byte_array, g))
        => parsed = ParseFalse

\* C4 witness: two groups, the first valid and the second not, and nothing
\* was returned.
C4_Witness ==
    /\ c_pc = "parsed"
    /\ Len(byte_array) = 6
    /\ GroupOk(byte_array, 1)
    /\ ~GroupOk(byte_array, 2)
    /\ parsed = ParseFalse

\* C5 as stated: parse_crc8 of a byte array whose length is not a multiple
\* of 3 fails and returns no payload.
C5_FailsOnBadLength ==
    (c_pc = "parsed" /\ Len(byte_array) % 3 # 0) => parsed = ParseFalse

\* C5 amended: parse_crc8 of a byte array whose length is not a multiple of 3
\* ignores the 1 or 2 bytes after the last complete group: it returns the
\* data bytes of the complete groups when all of them validate, and False
\* when one of them does not.
C5_TrailingBytesIgnored ==
    (c_pc = "parsed" /\ Len(byte_array) % 3 # 0) =>
        IF \A g \in Groups(byte_array) : GroupOk(byte_array, g)
        THEN parsed = [ok |-> TRUE, data |-> DataBytes(byte_array)]
        ELSE parsed = ParseFalse

\* C5 witness: a valid group followed by a lone byte, decoded to two bytes.
C5_Witness ==
    /\ c_pc = "parsed"
    /\ Len(byte_array) = 4
    /\ GroupOk(byte_array, 1)
    /\ parsed.ok
    /\ Len(parsed.data) = 2

\* C6: of a byte array of length 3n in which every group carries the correct
\* checksum, parse_crc8 returns the 2n data bytes: the first two bytes of
\* each group, in the original order.
C6_DecodeValidFrame ==
    (/\ c_pc = "parsed"
     /\ Len(byte_array) % 3 = 0
     /\ \A g \in Groups(byte_array) : GroupOk(byte_array, g))
        => /\ parsed.ok
           /\ Len(parsed.data) = 2 * (Len(byte_array) \div 3)
           /\ parsed.data = DataBytes(byte_array)

\* C6 witness: two valid groups with different data bytes were decoded.
C6_Witness ==
    /\ c_pc = "parsed"
    /\ Len(byte_array) = 6
    /\ \A g \in Groups(byte_array) : GroupOk(byte_array, g)
    /\ parsed.ok
    /\ Len(parsed.data) = 4
    /\ <<parsed.data[1], parsed.data[2]>> # <<parsed.data[3], parsed.data[4]>>

\* C7 as stated: whatever crc_init in 0..255 and crc_poly in 0..511 the
\* session was constructed with, the accumulator of calc_crc8 is within
\* 0..255 after every XOR and every shift.
C7_AccumulatorIsByte ==
    (c_pc \in {"byte", "bit", "calc_done"} /\ crc_init \in 0..255
        /\ crc_poly \in 0..511) => crc \in 0..255

\* C8: with crc_init 0xFF and crc_poly 0x131, calc_crc8([0xBE, 0xEF]) is
\* 0x92, parse_crc8([0xBE, 0xEF, 0x92]) returns [0xBE, 0xEF] and
\* parse_crc8([0xBE, 0xEF, 0x00]) returns False.
C8_KnownVector ==
    DefaultConfig =>
        /\ (c_pc = "calc_done" /\ byte_array = <<190, 239>>) => crc = 146
        /\ (c_pc = "parsed" /\ byte_array = <<190, 239, 146>>)
               => parsed = [ok |-> TRUE, data |-> <<190, 239>>]
        /\ (c_pc = "parsed" /\ byte_array = <<190, 239, 0>>)
               => parsed = ParseFalse

\* C8 witness: the known vector went through calc_crc8.
C8_Witness ==
    /\ DefaultConfig
    /\ c_pc = "calc_done"
    /\ byte_array = <<190, 239>>
    /\ crc = 146

=============================================================================
